---------------------------- MODULE Spec2Model ----------------------------
(***************************************************************************)
(* A model of atsb_dashboard.py: the listing parser, the detail merge, the *)
(* keyword classifiers and the run of main().  Every text is a sequence of *)
(* one-character strings, so that substring tests, case folding,           *)
(* whitespace normalisation and the regular expressions of the source are  *)
(* computed and not assumed.                                               *)
(***************************************************************************)
EXTENDS Integers, Sequences, FiniteSets, TLC

VARIABLES
    pc,            \* position of main(): start, listing, details, prepare, csv, json, insights, dashboard, done, aborted
    err,           \* the exception that aborted the run, or "none"
    page,          \* the listing page the site serves: the rows of "table tbody tr"
    limit,         \* the limit argument of parse_listing
    listing,       \* the list parse_listing returned; its items are updated in place
    summaries,     \* history: the items as parse_listing returned them
    served,        \* history: the detail page served for each item fetched so far
    detailed,      \* the list built by the comprehension of main()
    log,           \* history: the GET requests and file writes attempted, in order
    dirs,          \* the directories that exist
    files,         \* path -> "absent", "stale" (left by an earlier run), "written", "partial"
    frags,         \* classifier input: the text, as the fragments it is made of
    cause,         \* classify_cause(text), or NoValue before the call
    severity,      \* classify_severity(text), or NoValue before the call
    seenSeverity   \* history: every label classify_severity has returned

vars == <<pc, err, page, limit, listing, summaries, served, detailed, log, dirs, files,
          frags, cause, severity, seenSeverity>>

mainVars == <<pc, err, page, limit, listing, summaries, served, detailed, log, dirs, files>>
textVars == <<frags, cause, severity, seenSeverity>>

NoValue == "<none>"

\* ---- string literals of the source, as character sequences ----
BASE ==
    <<"h", "t", "t", "p", "s", ":", "/", "/", "w", "w", "w", ".", "a", "t", "s", "b", ".", "g",
      "o", "v", ".", "a", "u">>
ListPath ==
    <<"/", "a", "v", "i", "a", "t", "i", "o", "n", "-", "i", "n", "v", "e", "s", "t", "i", "g",
      "a", "t", "i", "o", "n", "-", "r", "e", "p", "o", "r", "t", "s">>
ReportPath ==
    <<"/", "p", "u", "b", "l", "i", "c", "a", "t", "i", "o", "n", "s", "/", "i", "n", "v", "e",
      "s", "t", "i", "g", "a", "t", "i", "o", "n", "_", "r", "e", "p", "o", "r", "t", "s", "/">>
AO_ ==
    <<"A", "O", "-">>
AA_ ==
    <<"A", "A", "-">>
SiteSuffix ==
    <<" ", "|", " ", "A", "T", "S", "B">>
Unknown ==
    <<"U", "n", "k", "n", "o", "w", "n">>
\* the keywords of classify_cause's mapping
CauseKw ==
    [ collision_with_terrain |->
          <<"c", "o", "l", "l", "i", "s", "i", "o", "n", " ", "w", "i", "t", "h", " ", "t", "e",
          "r", "r", "a", "i", "n">>,
      controlled_flight_into_terrain |->
          <<"c", "o", "n", "t", "r", "o", "l", "l", "e", "d", " ", "f", "l", "i", "g", "h", "t",
          " ", "i", "n", "t", "o", " ", "t", "e", "r", "r", "a", "i", "n">>,
      cfit |->
          <<"c", "f", "i", "t">>,
      near_collision |->
          <<"n", "e", "a", "r", " ", "c", "o", "l", "l", "i", "s", "i", "o", "n">>,
      proximity_event |->
          <<"p", "r", "o", "x", "i", "m", "i", "t", "y", " ", "e", "v", "e", "n", "t">>,
      airprox |->
          <<"a", "i", "r", "p", "r", "o", "x">>,
      midair |->
          <<"m", "i", "d", "a", "i", "r">>,
      ditching |->
          <<"d", "i", "t", "c", "h", "i", "n", "g">>,
      water |->
          <<"w", "a", "t", "e", "r">>,
      engine |->
          <<"e", "n", "g", "i", "n", "e">>,
      landing_gear |->
          <<"l", "a", "n", "d", "i", "n", "g", " ", "g", "e", "a", "r">>,
      rotor |->
          <<"r", "o", "t", "o", "r">>,
      foreign_object |->
          <<"f", "o", "r", "e", "i", "g", "n", " ", "o", "b", "j", "e", "c", "t">>,
      f_o_d |->
          <<"f", ".", "o", ".", "d">>,
      indication |->
          <<"i", "n", "d", "i", "c", "a", "t", "i", "o", "n">>,
      failure |->
          <<"f", "a", "i", "l", "u", "r", "e">>,
      fuel |->
          <<"f", "u", "e", "l">>,
      runway |->
          <<"r", "u", "n", "w", "a", "y">>,
      navigation |->
          <<"n", "a", "v", "i", "g", "a", "t", "i", "o", "n">>,
      weather |->
          <<"w", "e", "a", "t", "h", "e", "r">>,
      vfr |->
          <<"v", "f", "r">>,
      imc |->
          <<"i", "m", "c">> ]
\* the keywords of classify_severity
SeverityKw ==
    [ fatal |->
          <<"f", "a", "t", "a", "l">>,
      sustained_fatal_injuries |->
          <<"s", "u", "s", "t", "a", "i", "n", "e", "d", " ", "f", "a", "t", "a", "l", " ", "i",
          "n", "j", "u", "r", "i", "e", "s">>,
      serious_injury |->
          <<"s", "e", "r", "i", "o", "u", "s", " ", "i", "n", "j", "u", "r", "y">>,
      minor_injury |->
          <<"m", "i", "n", "o", "r", " ", "i", "n", "j", "u", "r", "y">>,
      injur |->
          <<"i", "n", "j", "u", "r">>,
      no_injuries |->
          <<"n", "o", " ", "i", "n", "j", "u", "r", "i", "e", "s">>,
      no_injury |->
          <<"n", "o", " ", "i", "n", "j", "u", "r", "y">> ]
\* the tokens of parse_operation_type
OperationKw ==
    [ helicopter |->
          <<"h", "e", "l", "i", "c", "o", "p", "t", "e", "r">>,
      r44 |->
          <<"r", "4", "4">>,
      aw139 |->
          <<"a", "w", "1", "3", "9">>,
      bell |->
          <<"b", "e", "l", "l">>,
      s_92 |->
          <<"s", "-", "9", "2">>,
      airbus |->
          <<"a", "i", "r", "b", "u", "s">>,
      saab |->
          <<"s", "a", "a", "b">>,
      boeing |->
          <<"b", "o", "e", "i", "n", "g">>,
      a380 |->
          <<"a", "3", "8", "0">>,
      accredited_representative |->
          <<"a", "c", "c", "r", "e", "d", "i", "t", "e", "d", " ", "r", "e", "p", "r", "e", "s",
          "e", "n", "t", "a", "t", "i", "v", "e">> ]
\* the words of the patterns of parse_aircraft and parse_location
PatternKw ==
    [ involving |->
          <<"i", "n", "v", "o", "l", "v", "i", "n", "g">>,
      near |->
          <<"n", "e", "a", "r">>,
      at |->
          <<"a", "t">>,
      about |->
          <<"a", "b", "o", "u", "t">>,
      off |->
          <<"o", "f", "f">>,
      west_of |->
          <<"w", "e", "s", "t", " ", "o", "f">>,
      east_of |->
          <<"e", "a", "s", "t", " ", "o", "f">>,
      south_of |->
          <<"s", "o", "u", "t", "h", " ", "o", "f">>,
      north_of |->
          <<"n", "o", "r", "t", "h", " ", "o", "f">>,
      on |->
          <<"o", "n">> ]

\* ---- str methods and helpers ----
\* the least and the greatest element of a non-empty set of integers
Least(S) == CHOOSE x \in S : \A y \in S : x <= y
Greatest(S) == CHOOSE x \in S : \A y \in S : x >= y
UpperChars ==
    <<"A", "B", "C", "D", "E", "F", "G", "H", "I", "J", "K", "L", "M",
      "N", "O", "P", "Q", "R", "S", "T", "U", "V", "W", "X", "Y", "Z">>
LowerChars ==
    <<"a", "b", "c", "d", "e", "f", "g", "h", "i", "j", "k", "l", "m",
      "n", "o", "p", "q", "r", "s", "t", "u", "v", "w", "x", "y", "z">>
Digits ==
    <<"0", "1", "2", "3", "4", "5", "6", "7", "8", "9">>
\* the characters \s matches and str.strip() removes, among those the model's texts use
WhiteSpace == {" ", "\t", "\n", "\r", "\f"}

LowerChar(c) ==
    IF \E i \in DOMAIN UpperChars : UpperChars[i] = c
    THEN LowerChars[CHOOSE i \in DOMAIN UpperChars : UpperChars[i] = c]
    ELSE c
UpperChar(c) ==
    IF \E i \in DOMAIN LowerChars : LowerChars[i] = c
    THEN UpperChars[CHOOSE i \in DOMAIN LowerChars : LowerChars[i] = c]
    ELSE c
\* str.lower() and str.upper()
Lower(t) == [i \in DOMAIN t |-> LowerChar(t[i])]
Upper(t) == [i \in DOMAIN t |-> UpperChar(t[i])]

\* k in t
Contains(t, k) ==
    \E i \in 0..(Len(t) - Len(k)) : SubSeq(t, i + 1, i + Len(k)) = k
\* t.startswith(k)
StartsWith(t, k) ==
    Len(t) >= Len(k) /\ SubSeq(t, 1, Len(k)) = k
\* the text at positions i.. of t begins with k
MatchAt(t, i, k) ==
    i + Len(k) - 1 <= Len(t) /\ SubSeq(t, i, i + Len(k) - 1) = k

\* re.sub(r"\s+", " ", t): every maximal run of whitespace becomes one space
Collapse(t) ==
    LET marked == [i \in DOMAIN t |->
                      [c |-> IF t[i] \in WhiteSpace THEN " " ELSE t[i],
                       first |-> t[i] \notin WhiteSpace \/ i = 1 \/ t[i - 1] \notin WhiteSpace]]
        kept == SelectSeq(marked, LAMBDA m : m.first)
    IN  [i \in DOMAIN kept |-> kept[i].c]
\* str.strip()
Strip(t) ==
    LET ink == {i \in DOMAIN t : t[i] \notin WhiteSpace}
    IN  IF ink = {} THEN <<>>
        ELSE SubSeq(t, Least(ink), Greatest(ink))
clean(text) == Strip(Collapse(text))

\* t.replace(old, ""): the occurrences of old are removed, leftmost first, none overlapping
RECURSIVE Remove(_, _)
Remove(t, old) ==
    LET occ == {i \in DOMAIN t : MatchAt(t, i, old)}
    IN  IF occ = {} \/ old = <<>> THEN t
        ELSE SubSeq(t, 1, Least(occ) - 1)
             \o Remove(SubSeq(t, Least(occ) + Len(old), Len(t)), old)
\* "".join(parts), and sep.join(parts)
RECURSIVE Flatten(_)
Flatten(parts) ==
    IF parts = <<>> THEN <<>> ELSE Head(parts) \o Flatten(Tail(parts))
RECURSIVE Join(_, _)
Join(sep, parts) ==
    IF parts = <<>> THEN <<>>
    ELSE IF Len(parts) = 1 THEN parts[1]
    ELSE parts[1] \o sep \o Join(sep, Tail(parts))

\* ---- classify_cause ----
\* mutant: "Operational event" is checked before "Mechanical / system issue"
mappingOperationalFirst ==
    LET k == CauseKw
    IN  << [label |-> "Collision with terrain",
            kws |-> <<k.collision_with_terrain, k.controlled_flight_into_terrain, k.cfit>>],
           [label |-> "Near collision / airprox",
            kws |-> <<k.near_collision, k.proximity_event, k.airprox, k.midair>>],
           [label |-> "Ditching / water impact",
            kws |-> <<k.ditching, k.water>>],
           [label |-> "Operational event",
            kws |-> <<k.fuel, k.runway, k.navigation, k.weather, k.vfr, k.imc>>],
           [label |-> "Mechanical / system issue",
            kws |-> <<k.engine, k.landing_gear, k.rotor, k.foreign_object, k.f_o_d, k.indication,
                      k.failure>>] >>
mapping ==
    LET k == CauseKw
    IN  << [label |-> "Collision with terrain",
            kws |-> <<k.collision_with_terrain, k.controlled_flight_into_terrain, k.cfit>>],
           [label |-> "Near collision / airprox",
            kws |-> <<k.near_collision, k.proximity_event, k.airprox, k.midair>>],
           [label |-> "Ditching / water impact",
            kws |-> <<k.ditching, k.water>>],
           [label |-> "Mechanical / system issue",
            kws |-> <<k.engine, k.landing_gear, k.rotor, k.foreign_object, k.f_o_d, k.indication,
                      k.failure>>],
           [label |-> "Operational event",
            kws |-> <<k.fuel, k.runway, k.navigation, k.weather, k.vfr, k.imc>>] >>

\* the loop over mapping.items(): the label of the first entry at or after i with a keyword in t
RECURSIVE ScanMapping(_, _, _)
ScanMapping(t, m, i) ==
    IF i > Len(m) THEN "Other / undetermined"
    ELSE IF \E j \in DOMAIN m[i].kws : Contains(t, m[i].kws[j]) THEN m[i].label
    ELSE ScanMapping(t, m, i + 1)
classify_cause(text) == ScanMapping(Lower(text), mapping, 1)

\* ---- classify_severity ----
\* mutant: the "no injuries" / "no injury" check comes before the "injur" check
classify_severity_no_injury_first(text) ==
    LET t == Lower(text)
        k == SeverityKw
    IN  IF Contains(t, k.fatal) \/ Contains(t, k.sustained_fatal_injuries) THEN "Fatal"
        ELSE IF Contains(t, k.serious_injury) THEN "Serious injury"
        ELSE IF Contains(t, k.no_injuries) \/ Contains(t, k.no_injury) THEN "No injury"
        ELSE IF Contains(t, k.minor_injury) \/ Contains(t, k.injur) THEN "Injury"
        ELSE "Unknown"
classify_severity(text) ==
    LET t == Lower(text)
        k == SeverityKw
    IN  IF Contains(t, k.fatal) \/ Contains(t, k.sustained_fatal_injuries) THEN "Fatal"
        ELSE IF Contains(t, k.serious_injury) THEN "Serious injury"
        ELSE IF Contains(t, k.minor_injury) \/ Contains(t, k.injur) THEN "Injury"
        ELSE IF Contains(t, k.no_injuries) \/ Contains(t, k.no_injury) THEN "No injury"
        ELSE "Unknown"

\* ---- regular-expression helpers ----
\* the length of the run of whitespace that starts at position j of t (what a greedy \s+ takes)
WsRun(t, j) ==
    Least({p \in j..(Len(t) + 1) : p = Len(t) + 1 \/ t[p] \notin WhiteSpace}) - j

\* ---- parse_aircraft: re.search(r"involving\s+([^,]+),", title, flags=re.I) ----
\* the group matched when the match starts at i, as a set that is empty when no match
\* starts there: \s+ takes the whole run of whitespace and gives one character back
\* when the group would otherwise be empty
AircraftGroupAt(t, i) ==
    LET j == i + Len(PatternKw.involving)
        w == WsRun(t, j)
        commas == {c \in (j + w)..Len(t) : t[c] = ","}
    IN  IF ~MatchAt(Lower(t), i, PatternKw.involving) \/ w < 1 \/ commas = {} THEN {}
        ELSE IF Least(commas) > j + w THEN {SubSeq(t, j + w, Least(commas) - 1)}
        ELSE IF w >= 2 THEN {<<t[j + w - 1]>>}
        ELSE {}
parse_aircraft(title) ==
    LET starts == {i \in DOMAIN title : AircraftGroupAt(title, i) # {}}
    IN  IF starts = {} THEN Unknown
        ELSE clean(CHOOSE g \in AircraftGroupAt(title, Least(starts)) : TRUE)

\* ---- parse_location ----
\* re.search(r"(?:near|at|about|off|west of|east of|south of|north of)\s+(.+?),\s+on\s+\d", title, flags=re.I)
Locatives ==
    LET k == PatternKw
    IN  <<k.near, k.at, k.about, k.off, k.west_of, k.east_of, k.south_of, k.north_of>>
\* ,\s+on\s+\d matches at position p of t
DateClauseAt(t, p) ==
    /\ p <= Len(t)
    /\ t[p] = ","
    /\ LET w1 == WsRun(t, p + 1)
           q == p + 1 + w1 + Len(PatternKw.on)
           w2 == WsRun(t, q)
       IN  /\ w1 >= 1
           /\ MatchAt(Lower(t), p + 1 + w1, PatternKw.on)
           /\ w2 >= 1
           /\ q + w2 <= Len(t)
           /\ \E d \in DOMAIN Digits : Digits[d] = t[q + w2]
\* the ends e of a group g..e of (.+?): no line break inside, the date clause right after
GroupEnds(t, g) ==
    {e \in g..Len(t) : (\A x \in g..e : t[x] # "\n") /\ DateClauseAt(t, e + 1)}
\* with the locative ending just before j: the numbers k of whitespace characters \s+ may
\* keep so that the rest of the pattern matches
WsChoices(t, j) ==
    {k \in 1..WsRun(t, j) : GroupEnds(t, j + k) # {}}
\* the alternatives that match at i and let the rest of the pattern match
LocativesAt(t, i) ==
    {a \in DOMAIN Locatives :
        MatchAt(Lower(t), i, Locatives[a]) /\ WsChoices(t, i + Len(Locatives[a])) # {}}
\* the group of the match found first: leftmost start, first alternative, greedy \s+, lazy group
parse_location(title) ==
    LET starts == {i \in DOMAIN title : LocativesAt(title, i) # {}}
    IN  IF starts = {} THEN Unknown
        ELSE LET i == Least(starts)
                 j == i + Len(Locatives[Least(LocativesAt(title, i))])
                 g == j + Greatest(WsChoices(title, j))
             IN  clean(SubSeq(title, g, Least(GroupEnds(title, g))))

\* ---- parse_operation_type ----
HelicopterTokens == <<OperationKw.r44, OperationKw.aw139, OperationKw.bell, OperationKw.s_92>>
TransportTokens == <<OperationKw.airbus, OperationKw.saab, OperationKw.boeing, OperationKw.a380>>
parse_operation_type(title) ==
    LET t == Lower(title)
    IN  IF Contains(t, OperationKw.helicopter)
           \/ \E x \in DOMAIN HelicopterTokens : Contains(t, HelicopterTokens[x])
        THEN "Helicopter"
        ELSE IF \E x \in DOMAIN TransportTokens : Contains(t, TransportTokens[x])
        THEN "Air transport"
        ELSE IF Contains(t, OperationKw.accredited_representative) THEN "International assistance"
        ELSE "General aviation"

\* ---- datetime.strptime(date_str, "%d/%m/%Y") ----
\* a datetime at midnight is modelled by year * 10000 + month * 100 + day, which orders as datetime does
DateValue(y, m, d) == y * 10000 + m * 100 + d
\* occ_date = None
NoDate == 0
\* datetime.min, the date 0001-01-01
DatetimeMin == 10101

IsDigit(c) == \E d \in DOMAIN Digits : Digits[d] = c
DigitValue(c) == (CHOOSE d \in DOMAIN Digits : Digits[d] = c) - 1
RECURSIVE Number(_)
Number(s) ==
    IF s = <<>> THEN 0 ELSE 10 * Number(SubSeq(s, 1, Len(s) - 1)) + DigitValue(s[Len(s)])
AllDigits(s) == \A i \in DOMAIN s : IsDigit(s[i])

IsLeap(y) == (y % 4 = 0 /\ y % 100 # 0) \/ y % 400 = 0
DaysInMonth(y, m) ==
    IF m = 2 THEN (IF IsLeap(y) THEN 29 ELSE 28)
    ELSE IF m \in {4, 6, 9, 11} THEN 30 ELSE 31

\* %d is 3[0-1]|[1-2]\d|0[1-9]|[1-9]| [1-9]
DayField(s) ==
    \/ /\ Len(s) \in {1, 2} /\ AllDigits(s) /\ Number(s) \in 1..31
    \/ /\ Len(s) = 2 /\ s[1] = " " /\ IsDigit(s[2]) /\ DigitValue(s[2]) >= 1
DayNumber(s) == IF s[1] = " " THEN DigitValue(s[2]) ELSE Number(s)
\* %m is 1[0-2]|0[1-9]|[1-9]
MonthField(s) == Len(s) \in {1, 2} /\ AllDigits(s) /\ Number(s) \in 1..12
\* %Y is \d\d\d\d
YearField(s) == Len(s) = 4 /\ AllDigits(s)

\* the datetime parsed, or NoDate where strptime raises (the except branch of parse_listing)
strptime(s) ==
    LET slashes == {i \in DOMAIN s : s[i] = "/"}
    IN  IF Cardinality(slashes) # 2 THEN NoDate
        ELSE LET s1 == Least(slashes)
                 s2 == Greatest(slashes)
                 ds == SubSeq(s, 1, s1 - 1)
                 ms == SubSeq(s, s1 + 1, s2 - 1)
                 ys == SubSeq(s, s2 + 1, Len(s))
             IN  IF ~(DayField(ds) /\ MonthField(ms) /\ YearField(ys)) THEN NoDate
                 ELSE IF Number(ys) < 1 \/ DayNumber(ds) > DaysInMonth(Number(ys), Number(ms))
                 THEN NoDate
                 ELSE DateValue(Number(ys), Number(ms), DayNumber(ds))

\* ---- parse_listing ----
\* A row of "table tbody tr" is [anchors, tds]: the <a href> elements of the row in
\* document order, each [text, href], and the texts of its <td> cells.

\* tr.select('a[href*="/publications/investigation_reports/"]')
ReportLinks(tr) == SelectSeq(tr.anchors, LAMBDA a : Contains(a.href, ReportPath))

IsCodeText(a) == Contains(Upper(a.text), AO_) \/ Contains(Upper(a.text), AA_)
\* next((a for a in links if neither code marker is in its text), links[0])
TitleLink(links) ==
    LET plain == {i \in DOMAIN links : ~IsCodeText(links[i])}
    IN  IF plain = {} THEN links[1] ELSE links[Least(plain)]
\* mutant: links[0]
CodeLinkFirst(links) == links[1]
\* links[-1]
CodeLink(links) == links[Len(links)]

\* tds[i] if len(tds) > i else "", for the 0-based index i
Cell(tr, i) == IF Len(tr.tds) > i THEN clean(tr.tds[i + 1]) ELSE <<>>

\* the dict appended for a row that has report links
RowItem(tr) ==
    LET links == ReportLinks(tr)
        href == TitleLink(links).href
        date_str == Cell(tr, 2)
    IN  [report_no |-> clean(CodeLink(links).text),
         title |-> clean(TitleLink(links).text),
         report_url |-> IF StartsWith(href, <<"/">>) THEN BASE \o href ELSE href,
         occurrence_date |-> strptime(date_str),
         occurrence_date_text |-> date_str,
         investigation_status |-> Cell(tr, 3)]

\* the loop over rows: rows without a report link are skipped
RECURSIVE RawItems(_)
RawItems(rows) ==
    IF rows = <<>> THEN <<>>
    ELSE IF ReportLinks(Head(rows)) = <<>> THEN RawItems(Tail(rows))
    ELSE <<RowItem(Head(rows))>> \o RawItems(Tail(rows))

\* mutant: dedup.setdefault(it["report_no"], it), the first row of a key wins
DedupPutKeepFirst(d, it) ==
    IF \E i \in DOMAIN d : d[i].report_no = it.report_no THEN d ELSE Append(d, it)
\* dedup[it["report_no"]] = it: a key keeps the place of its first row and takes the value of its last
DedupPut(d, it) ==
    IF \E i \in DOMAIN d : d[i].report_no = it.report_no
    THEN [i \in DOMAIN d |-> IF d[i].report_no = it.report_no THEN it ELSE d[i]]
    ELSE Append(d, it)
RECURSIVE DedupFrom(_, _)
DedupFrom(d, items) ==
    IF items = <<>> THEN d ELSE DedupFrom(DedupPut(d, Head(items)), Tail(items))
\* list(dedup.values())
Dedup(items) == DedupFrom(<<>>, items)

\* the value of datetime.max.date(), 9999-12-31
DatetimeMax == 99991231
\* mutant: x["occurrence_date"] or datetime.max, undated records sort as the newest
SortKeyUndatedNewest(x) == IF x.occurrence_date = NoDate THEN DatetimeMax ELSE x.occurrence_date
\* key=lambda x: x["occurrence_date"] or datetime.min
SortKey(x) == IF x.occurrence_date = NoDate THEN DatetimeMin ELSE x.occurrence_date
\* list.sort(key=..., reverse=True) is stable: an item goes after every item already
\* placed whose key is not smaller
SortInsert(sorted, it) ==
    LET before == {i \in DOMAIN sorted : SortKey(sorted[i]) >= SortKey(it)}
        n == IF before = {} THEN 0 ELSE Greatest(before)
    IN  SubSeq(sorted, 1, n) \o <<it>> \o SubSeq(sorted, n + 1, Len(sorted))
RECURSIVE SortFrom(_, _)
SortFrom(sorted, items) ==
    IF items = <<>> THEN sorted ELSE SortFrom(SortInsert(sorted, Head(items)), Tail(items))
SortByDateDesc(items) == SortFrom(<<>>, items)

\* mutant: items[:limit + 1]
SliceOneMore(items, n) ==
    SubSeq(items, 1, IF n + 1 < Len(items) THEN (IF n + 1 > 0 THEN n + 1 ELSE 0) ELSE Len(items))
\* items[:limit], for negative limits too
Slice(items, n) ==
    IF n >= 0 THEN SubSeq(items, 1, IF n < Len(items) THEN n ELSE Len(items))
    ELSE SubSeq(items, 1, IF Len(items) + n > 0 THEN Len(items) + n ELSE 0)

\* parse_listing on the rows of the page fetched
parse_listing(rows, n) == Slice(SortByDateDesc(Dedup(RawItems(rows))), n)

\* ---- requests.get(url): what is checked of the URL before anything is sent ----
\* requests 2.31 (PreparedRequest.prepare_url, prepare_auth, Session.get_adapter) with
\* urllib3 1.26 (util.url.parse_url) on Python 3.11 (urllib.parse.urlsplit, ipaddress);
\* the texts are of printable ASCII characters but the grave accent, and of tab, newline,
\* carriage return and form feed.

\* the characters of codes 32 to 95 and 97 to 126 (a grave accent cannot be written here)
AsciiLow ==
    <<" ", "!", "\"", "#", "$", "%", "&", "'", "(", ")", "*", "+", ",", "-", ".", "/", "0",
      "1", "2", "3", "4", "5", "6", "7", "8", "9", ":", ";", "<", "=", ">", "?", "@", "A",
      "B", "C", "D", "E", "F", "G", "H", "I", "J", "K", "L", "M", "N", "O", "P", "Q", "R",
      "S", "T", "U", "V", "W", "X", "Y", "Z", "[", "\\", "]", "^", "_">>
AsciiHigh ==
    <<"a", "b", "c", "d", "e", "f", "g", "h", "i", "j", "k", "l", "m", "n", "o", "p", "q",
      "r", "s", "t", "u", "v", "w", "x", "y", "z", "{", "|", "}", "~">>
\* ord(c) and chr(n)
Ord(c) ==
    CASE c = "\t" -> 9
      [] c = "\n" -> 10
      [] c = "\f" -> 12
      [] c = "\r" -> 13
      [] \E i \in DOMAIN AsciiLow : AsciiLow[i] = c ->
            31 + (CHOOSE i \in DOMAIN AsciiLow : AsciiLow[i] = c)
      [] OTHER -> 96 + (CHOOSE i \in DOMAIN AsciiHigh : AsciiHigh[i] = c)
Chr(n) == IF n < 96 THEN AsciiLow[n - 31] ELSE AsciiHigh[n - 96]
HexChars ==
    <<"0", "1", "2", "3", "4", "5", "6", "7", "8", "9", "A", "B", "C", "D", "E", "F">>
IsAlpha(c) == \E i \in DOMAIN UpperChars : c = UpperChars[i] \/ c = LowerChars[i]
IsAlnum(c) == IsAlpha(c) \/ IsDigit(c)
IsHex(c) == \E i \in DOMAIN HexChars : UpperChar(c) = HexChars[i]
HexValue(c) == (CHOOSE i \in DOMAIN HexChars : UpperChar(c) = HexChars[i]) - 1
\* "%XX", the code of c in upper-case hexadecimal
PercentByte(c) == <<"%", HexChars[(Ord(c) \div 16) + 1], HexChars[(Ord(c) % 16) + 1]>>
IsUnreserved(c) == IsAlnum(c) \/ c \in {".", "_", "-", "~"}
\* urllib3: USERINFO_CHARS
IsUserinfoChar(c) ==
    IsUnreserved(c) \/ c \in {"!", "$", "&", "'", "(", ")", "*", "+", ",", ";", "=", ":"}

\* s.find(c) + 1 and s.rfind(c) + 1
IndexOf(s, c) ==
    LET at == {i \in DOMAIN s : s[i] = c} IN IF at = {} THEN 0 ELSE Least(at)
LastIndexOf(s, c) ==
    LET at == {i \in DOMAIN s : s[i] = c} IN IF at = {} THEN 0 ELSE Greatest(at)
\* the part of s before its first character in stops
UpTo(s, stops) ==
    LET at == {i \in DOMAIN s : s[i] \in stops}
    IN  IF at = {} THEN s ELSE SubSeq(s, 1, Least(at) - 1)
\* s[n:]
From(s, n) == SubSeq(s, n + 1, Len(s))
\* s.split(c)
RECURSIVE Split(_, _)
Split(s, c) ==
    IF IndexOf(s, c) = 0 THEN <<s>>
    ELSE <<SubSeq(s, 1, IndexOf(s, c) - 1)>> \o Split(From(s, IndexOf(s, c)), c)
\* s.lstrip()
LStrip(s) ==
    LET ink == {i \in DOMAIN s : s[i] \notin WhiteSpace}
    IN  IF ink = {} THEN <<>> ELSE From(s, Least(ink) - 1)
\* s.lstrip("0")
StripZeros(s) ==
    LET nz == {i \in DOMAIN s : s[i] # "0"}
    IN  IF nz = {} THEN <<>> ELSE From(s, Least(nz) - 1)

\* ---- urllib3.util.url ----
\* PERCENT_RE matches at position i of s: "%" and two hexadecimal digits
IsEscape(s, i) == i >= 1 /\ i + 2 <= Len(s) /\ s[i] = "%" /\ IsHex(s[i + 1]) /\ IsHex(s[i + 2])
\* every "%" of s begins a percent-escape
ValidEscapesOnly(s) == \A i \in DOMAIN s : s[i] = "%" => IsEscape(s, i)
\* _encode_invalid_chars(s, USERINFO_CHARS), or (s, UNRESERVED_CHARS): the escapes are put
\* in upper case; a character that is not allowed is escaped, and so is "%" unless every
\* "%" begins an escape
encode_invalid_chars(s, userinfo) ==
    LET Allowed(c) == IF userinfo THEN IsUserinfoChar(c) ELSE IsUnreserved(c)
        Encode(c) ==
            IF (ValidEscapesOnly(s) /\ c = "%") \/ Allowed(c) THEN <<c>> ELSE PercentByte(c)
    IN  Flatten([i \in DOMAIN s |->
                    Encode(IF IsEscape(s, i - 1) \/ IsEscape(s, i - 2) THEN UpperChar(s[i])
                           ELSE s[i])])
\* HEX_PAT: one to four hexadecimal digits
IsH16(p) == Len(p) \in 1..4 /\ \A i \in DOMAIN p : IsHex(p[i])
\* IPV4_PAT: four groups of one to three digits
IsIPv4Pat(p) ==
    \E q \in {Split(p, ".")} :
        Len(q) = 4 /\ \A k \in DOMAIN q : Len(q[k]) \in 1..3 /\ AllDigits(q[k])
\* the number of 16-bit pieces of ps, the texts that ":" separates: each is h16, the last
\* one may be an IPv4 address (ls32), which counts for two; none for the empty text; -1
\* when ps is not such a list
Pieces(ps) ==
    IF ps = << <<>> >> THEN 0
    ELSE IF \A k \in 1..(Len(ps) - 1) : IsH16(ps[k])
         THEN (IF IsH16(ps[Len(ps)]) THEN Len(ps)
               ELSE IF IsIPv4Pat(ps[Len(ps)]) THEN Len(ps) + 1
               ELSE -1)
         ELSE -1
\* IPV6_PAT: eight pieces, or "::" once with at most seven pieces around it, the left ones h16
IsIPv6Pat(a) ==
    LET at == {i \in DOMAIN a : MatchAt(a, i, <<":", ":">>)}
    IN  IF at = {} THEN Pieces(Split(a, ":")) = 8
        ELSE \E l \in {Split(SubSeq(a, 1, Least(at) - 1), ":")},
                r \in {Split(From(a, Least(at) + 1), ":")} :
                \E nl \in {Pieces(l)}, nr \in {Pieces(r)} :
                    /\ nl >= 0
                    /\ nr >= 0
                    /\ nl > 0 => IsH16(l[Len(l)])
                    /\ nl + nr <= 7
\* ZONE_ID_PAT: "%25" or "%", then unreserved characters and escapes, at least one
IsZonePat(z) ==
    LET Body(b) ==
            /\ b # <<>>
            /\ ValidEscapesOnly(b)
            /\ \A i \in DOMAIN b : IsUnreserved(b[i]) \/ b[i] = "%"
    IN  \/ StartsWith(z, <<"%">>) /\ Body(From(z, 1))
        \/ StartsWith(z, <<"%", "2", "5">>) /\ Body(From(z, 3))
\* IPV6_ADDRZ_PAT
IsIPv6AddrzPat(h) ==
    /\ Len(h) >= 2
    /\ h[1] = "["
    /\ h[Len(h)] = "]"
    /\ \E b \in {SubSeq(h, 2, Len(h) - 1)} :
          \E i \in {IndexOf(b, "%")} :
              /\ IsIPv6Pat(IF i = 0 THEN b ELSE SubSeq(b, 1, i - 1))
              /\ i > 0 => IsZonePat(From(b, i - 1))
\* REG_NAME_PAT (IPV4_PAT matches nothing that REG_NAME_PAT does not)
IsRegName(h) ==
    ValidEscapesOnly(h) /\ \A i \in DOMAIN h : h[i] \notin {"[", "]", ":", "/", "?", "#"}
\* the port of _HOST_PORT_PAT, and the range parse_url checks
IsPort(p) ==
    AllDigits(p) /\ Len(StripZeros(p)) <= 5 /\ Number(StripZeros(p)) <= 65535
\* _HOST_PORT_RE.match(hp): the host and the port, or nothing when hp does not match or
\* the port is above 65535; "$" also matches before a final newline
HostPort(hp) ==
    LET s == IF hp # <<>> /\ hp[Len(hp)] = "\n" THEN SubSeq(hp, 1, Len(hp) - 1) ELSE hp
        \* s as an IPv6 literal without a port, and s split at its last ":"
        Splits(i) ==
            {[host |-> s, port |-> <<>>]}
            \cup (IF i > 0 THEN {[host |-> SubSeq(s, 1, i - 1), port |-> From(s, i)]} ELSE {})
        Matches(c) ==
            (IsRegName(c.host) \/ IsIPv6AddrzPat(c.host)) /\ IsPort(c.port)
        Port(p) ==
            IF p = <<>> THEN <<>> ELSE IF StripZeros(p) = <<>> THEN <<"0">> ELSE StripZeros(p)
    IN  IF IsRegName(hp) THEN {[host |-> hp, port |-> <<>>]}
        ELSE {[host |-> c.host, port |-> Port(c.port)] :
                 c \in {c \in Splits(LastIndexOf(s, ":")) : Matches(c)}}
\* _normalize_host for the schemes http and https: lower case; the zone of an IPv6
\* literal, which ZONE_ID_RE.search finds at the first "%", loses its "%25" or "%" and
\* gets "%"
normalize_host(h) ==
    LET i == IndexOf(h, "%")
        Zone(z) ==
            <<"%">> \o encode_invalid_chars(
                         IF StartsWith(z, <<"%", "2", "5">>) /\ z # <<"%", "2", "5">>
                         THEN From(z, 3) ELSE From(z, 1), FALSE)
    IN  IF IsIPv6AddrzPat(h) /\ i > 0
        THEN Lower(SubSeq(h, 1, i - 1)) \o Zone(SubSeq(h, i, Len(h) - 1)) \o <<"]">>
        ELSE Lower(h)

\* ---- requests.utils.requote_uri ----
\* unquote_unreserved raises InvalidURL: a "%" is followed by two alphanumeric characters
\* that are not both hexadecimal digits
HasInvalidEscape(s) ==
    \E i \in DOMAIN s :
        /\ s[i] = "%"
        /\ i + 2 <= Len(s)
        /\ IsAlnum(s[i + 1]) /\ IsAlnum(s[i + 2])
        /\ ~(IsHex(s[i + 1]) /\ IsHex(s[i + 2]))
\* unquote_unreserved: the escapes of unreserved characters are replaced by the characters
unquote_unreserved(s) ==
    LET Decodes(i) ==
            /\ IsEscape(s, i)
            /\ 16 * HexValue(s[i + 1]) + HexValue(s[i + 2]) \in (32..95) \cup (97..126)
            /\ IsUnreserved(Chr(16 * HexValue(s[i + 1]) + HexValue(s[i + 2])))
    IN  Flatten([i \in DOMAIN s |->
                    IF Decodes(i) THEN <<Chr(16 * HexValue(s[i + 1]) + HexValue(s[i + 2]))>>
                    ELSE IF Decodes(i - 1) \/ Decodes(i - 2) THEN <<>>
                    ELSE <<s[i]>>])
\* urllib.parse.quote(s, safe=safe_with_percent), or safe=safe_without_percent
quote(s, percent) ==
    LET Safe(c) ==
            \/ IsUnreserved(c)
            \/ c \in {"!", "#", "$", "&", "'", "(", ")", "*", "+", ",", "/", ":", ";", "=",
                      "?", "@", "[", "]", "~"}
            \/ (percent /\ c = "%")
    IN  Flatten([i \in DOMAIN s |-> IF Safe(s[i]) THEN <<s[i]>> ELSE PercentByte(s[i])])
\* requote_uri applied to a part s of a URI; invalid: the URI has an invalid escape
requote_uri(s, invalid) ==
    IF invalid THEN quote(s, FALSE) ELSE quote(unquote_unreserved(s), TRUE)

\* ---- Python: ipaddress and urllib.parse.urlsplit ----
\* ipaddress.IPv4Address(s) is valid
IsIPv4Address(s) ==
    \E q \in {Split(s, ".")} :
        /\ Len(q) = 4
        /\ \A k \in DOMAIN q :
              /\ Len(q[k]) \in 1..3
              /\ AllDigits(q[k])
              /\ ~(Len(q[k]) > 1 /\ q[k][1] = "0")
              /\ Number(q[k]) <= 255
\* ipaddress.IPv6Address(c) is valid: i, where the scope id begins; raw, the texts that
\* ":" separates; parts, raw with a final IPv4 address put as two groups; skips, where
\* "::" is; hi and lo, the numbers of groups before and after it
IsIPv6Address(c) ==
    \E i \in {IndexOf(c, "%")} :
        /\ i > 0 => From(c, i) # <<>> /\ IndexOf(From(c, i), "%") = 0
        /\ \E raw \in {Split(IF i = 0 THEN c ELSE SubSeq(c, 1, i - 1), ":")} :
              /\ Len(raw) >= 3
              /\ \E dotted \in {Contains(raw[Len(raw)], <<".">>)} :
                    /\ dotted => IsIPv4Address(raw[Len(raw)])
                    /\ \E parts \in {IF dotted
                                      THEN SubSeq(raw, 1, Len(raw) - 1) \o << <<"0">>, <<"0">> >>
                                      ELSE raw} :
                       \E n \in {Len(parts)} :
                       \E skips \in {{k \in 2..(n - 1) : parts[k] = <<>>}} :
                          /\ n <= 9
                          /\ Cardinality(skips) <= 1
                          /\ IF skips = {} THEN n = 8 /\ \A k \in 1..n : IsH16(parts[k])
                             ELSE \E hi \in {Least(skips) - 1 - (IF parts[1] = <<>> THEN 1 ELSE 0)},
                                     lo \in {n - Least(skips) - (IF parts[n] = <<>> THEN 1 ELSE 0)} :
                                     /\ parts[1] = <<>> => hi = 0
                                     /\ parts[n] = <<>> => lo = 0
                                     /\ hi + lo <= 7
                                     /\ \A k \in (1..hi) \cup ((n - lo + 1)..n) : IsH16(parts[k])
\* _check_bracketed_host: the IPvFuture pattern \Av[a-fA-F0-9]+\..+\Z
IsIPvFuture(c) ==
    LET i == IndexOf(c, ".")
    IN  i >= 3 /\ Len(c) > i /\ \A k \in 2..(i - 1) : IsHex(c[k])
\* urlsplit raises ValueError for this netloc: one bracket without the other, or a
\* bracketed host that is neither an IPv6 nor an IPvFuture address
NetlocRaises(netloc) ==
    LET o == IndexOf(netloc, "[")
        c == UpTo(From(netloc, o), {"]"})
    IN  IF (o = 0) # (IndexOf(netloc, "]") = 0) THEN TRUE
        ELSE IF o = 0 THEN FALSE
        ELSE IF StartsWith(c, <<"v">>) THEN ~IsIPvFuture(c)
        ELSE ~IsIPv6Address(c)
\* the netloc urlsplit finds in url
UrlsplitNetloc(url) ==
    LET Kept(c) == c \notin {"\t", "\r", "\n"}
        u == SelectSeq(url, Kept)
        i == IndexOf(u, ":")
        scheme == i > 1 /\ IsAlpha(u[1])
                  /\ \A k \in 1..(i - 1) : IsAlnum(u[k]) \/ u[k] \in {"+", "-", "."}
        rest == IF scheme THEN From(u, i) ELSE u
    IN  IF StartsWith(rest, <<"/", "/">>) THEN UpTo(From(rest, 2), {"/", "?", "#"}) ELSE <<>>

\* ---- requests.get(url) ----
\* parse_url: the scheme of url, empty when SCHEME_RE finds none
SchemeOf(url) ==
    LET i == IndexOf(url, ":")
        s == SubSeq(url, 1, i - 1)
    IN  IF i > 1 /\ IsAlpha(s[1]) /\ \A k \in DOMAIN s : IsAlnum(s[k]) \/ s[k] \in {"+", "-"}
        THEN s ELSE <<>>
\* the exception requests.get(url) raises before it sends anything, or "none":
\* prepare_url (MissingSchema, InvalidURL), prepare_auth (ValueError of urlsplit),
\* get_adapter (InvalidSchema)
RequestError(given) ==
    LET Http == <<"h", "t", "t", "p">>
        Https == <<"h", "t", "t", "p", "s">>
        url == LStrip(given)
        scheme == SchemeOf(url)
        rest == IF scheme # <<>> THEN From(url, Len(scheme) + 1)
                ELSE IF url = <<>> \/ StartsWith(url, <<"/">>) THEN url
                ELSE <<"/", "/">> \o url
        slashes == StartsWith(rest, <<"/", "/">>)
        authority == IF slashes THEN UpTo(From(rest, 2), {"\\", "/", "?", "#"}) ELSE <<>>
        tail == IF slashes THEN From(rest, 2 + Len(authority)) ELSE rest
        a == LastIndexOf(authority, "@")
        auth == SubSeq(authority, 1, a - 1)
        normal == Lower(scheme) \in {Http, Https}
        Netloc(m) ==
            (IF auth = <<>> THEN <<>>
             ELSE (IF normal THEN encode_invalid_chars(auth, TRUE) ELSE auth) \o <<"@">>)
            \o (IF normal THEN normalize_host(m.host) ELSE m.host)
            \o (IF m.port \in {<<>>, <<"0">>} THEN <<>> ELSE <<":">> \o m.port)
        path == IF normal THEN <<"/">>
                ELSE IF StartsWith(tail, <<"/">>) THEN tail ELSE <<"/">> \o tail
    IN  IF IndexOf(url, ":") > 0 /\ ~StartsWith(Lower(url), Http)
        THEN (IF NetlocRaises(UrlsplitNetloc(url)) THEN "ValueError" ELSE "InvalidSchema")
        ELSE CHOOSE e \in {"none", "MissingSchema", "InvalidSchema", "InvalidURL", "ValueError"} :
                \E hp \in {HostPort(From(authority, a))} :
                    e = IF authority # <<>> /\ hp = {} THEN "InvalidURL"
                        ELSE IF scheme = <<>> THEN "MissingSchema"
                        ELSE IF authority = <<>> THEN "InvalidURL"
                        ELSE IF \E m \in hp : m.host = <<>> \/ m.host[1] \in {"*", "."}
                             THEN "InvalidURL"
                        ELSE IF \E m \in hp :
                                   \E netloc \in {Netloc(m)} :
                                       NetlocRaises(requote_uri(netloc,
                                                                HasInvalidEscape(netloc \o path)))
                             THEN "ValueError"
                        ELSE IF normal THEN "none"
                        ELSE "InvalidSchema"

\* ---- extract_summary_text and fetch_report_detail ----
\* A detail page is [h1, title, main, doc]: the texts of its <h1> elements, the text of
\* its <title> element (a sequence of at most one), the <p> texts inside <main> (a
\* sequence of at most one sequence: empty when the page has no <main>) and the <p>
\* texts of the whole document.
MinParagraphLen == 40
MaxParagraphs == 4
ParagraphBreak == <<"\n", "\n">>

\* (soup.select_one("main") or soup).select("p")
Paragraphs(soup) == IF soup.main # <<>> THEN soup.main[1] ELSE soup.doc
extract_summary_text(soup) ==
    LET cleaned == [i \in DOMAIN Paragraphs(soup) |-> clean(Paragraphs(soup)[i])]
        kept == SelectSeq(cleaned, LAMBDA p : Len(p) > MinParagraphLen)
    IN  Join(ParagraphBreak,
             SubSeq(kept, 1, IF Len(kept) < MaxParagraphs THEN Len(kept) ELSE MaxParagraphs))

\* soup.select_one("h1") or soup.select_one("title"): a sequence, empty for None
HeadingElement(soup) == IF soup.h1 # <<>> THEN <<soup.h1[1]>> ELSE soup.title
\* .get_text() on None raises AttributeError
HeadingMissing(soup) == HeadingElement(soup) = <<>>
DetailTitle(soup) == Remove(clean(HeadingElement(soup)[1]), SiteSuffix)

\* the dict passed to item.update()
DetailFields(soup) ==
    LET title == DetailTitle(soup)
        summary == extract_summary_text(soup)
        combined == title \o <<"\n">> \o summary
    IN  [title |-> title,
         aircraft |-> parse_aircraft(title),
         location |-> parse_location(title),
         operation_type |-> parse_operation_type(title),
         key_text |-> summary,
         cause_category |-> classify_cause(combined),
         severity |-> classify_severity(combined)]
\* mutant: {**fields, **item}, the keys the item already has are kept
fetch_report_detail_keep_item(item, soup) == item @@ DetailFields(soup)
\* item.update(fields): the keys of fields are set, every other key of item is kept
fetch_report_detail(item, soup) == DetailFields(soup) @@ item

\* ---- the texts of the listing pages the model draws from ----
ListingText ==
    [ Code1 |->
          <<"A", "O", "-", "2", "0", "2", "4", "-", "0", "0", "1">>,
      Title1 |->
          <<"R", "e", "p", "o", "r", "t", " ", "i", "n", "v", "o", "l", "v", "i", "n", "g", " ",
          "B", "o", "e", "i", "n", "g", " ", "7", "3", "7", ",", " ", "n", "e", "a", "r", " ",
          "S", "y", "d", "n", "e", "y", ",", " ", "o", "n", " ", "5">>,
      Date1 |->
          <<"0", "1", "/", "0", "5", "/", "2", "0", "2", "4">>,
      Href1 |->
          <<"/", "p", "u", "b", "l", "i", "c", "a", "t", "i", "o", "n", "s", "/", "i", "n", "v",
          "e", "s", "t", "i", "g", "a", "t", "i", "o", "n", "_", "r", "e", "p", "o", "r", "t",
          "s", "/", "r", "1">>,
      Code2 |->
          <<"A", "O", "-", "2", "0", "2", "4", "-", "0", "0", "2">>,
      Title2 |->
          <<"R", "e", "p", "o", "r", "t", " ", "i", "n", "v", "o", "l", "v", "i", "n", "g", " ",
          "R", "4", "4", ",", " ", "n", "e", "a", "r", " ", "P", "e", "r", "t", "h", ",", " ",
          "o", "n", " ", "2">>,
      Date2 |->
          <<"0", "2", "/", "0", "5", "/", "2", "0", "2", "4">>,
      Href2 |->
          <<"/", "p", "u", "b", "l", "i", "c", "a", "t", "i", "o", "n", "s", "/", "i", "n", "v",
          "e", "s", "t", "i", "g", "a", "t", "i", "o", "n", "_", "r", "e", "p", "o", "r", "t",
          "s", "/", "r", "2">>,
      Code3 |->
          <<"A", "O", "-", "2", "0", "2", "4", "-", "0", "0", "3">>,
      Title3 |->
          <<"E", "n", "g", "i", "n", "e", " ", "f", "a", "i", "l", "u", "r", "e", " ", "i", "n",
          "v", "o", "l", "v", "i", "n", "g", " ", "C", "e", "s", "s", "n", "a", " ", "1", "7",
          "2", ",", "\n", " ", "a", "t", " ", "M", "o", "o", "r", "a", "b", "b", "i", "n", " ",
          "A", "i", "r", "p", "o", "r", "t", ",", " ", "o", "n", " ", "9">>,
      Date3 |->
          <<"T", "B", "A">>,
      Href3 |->
          <<"h", "t", "t", "p", "s", ":", "/", "/", "w", "w", "w", ".", "a", "t", "s", "b", ".",
          "g", "o", "v", ".", "a", "u", "/", "p", "u", "b", "l", "i", "c", "a", "t", "i", "o",
          "n", "s", "/", "i", "n", "v", "e", "s", "t", "i", "g", "a", "t", "i", "o", "n", "_",
          "r", "e", "p", "o", "r", "t", "s", "/", "r", "3">>,
      Code4 |->
          <<"A", "O", "-", "1", "5", "0", "0", "-", "0", "0", "4">>,
      Title4 |->
          <<"W", "r", "e", "c", "k", " ", "o", "f", " ", "a", " ", "b", "a", "l", "l", "o", "o",
          "n">>,
      Date4 |->
          <<"0", "1", "/", "0", "1", "/", "1", "5", "0", "0">>,
      Href4 |->
          <<"/", "p", "u", "b", "l", "i", "c", "a", "t", "i", "o", "n", "s", "/", "i", "n", "v",
          "e", "s", "t", "i", "g", "a", "t", "i", "o", "n", "_", "r", "e", "p", "o", "r", "t",
          "s", "/", "r", "4">>,
      Code5 |->
          <<"A", "A", "-", "2", "0", "2", "4", "-", "0", "0", "5">>,
      Title5 |->
          <<"A", "i", "r", "b", "u", "s", " ", "A", "3", "2", "0", " ", "r", "u", "n", "w", "a",
          "y", " ", "e", "x", "c", "u", "r", "s", "i", "o", "n">>,
      Date5 |->
          <<"0", "3", "/", "0", "5", "/", "2", "0", "2", "4">>,
      Href5 |->
          <<"r", "e", "p", "o", "r", "t", "s", "/", "p", "u", "b", "l", "i", "c", "a", "t", "i",
          "o", "n", "s", "/", "i", "n", "v", "e", "s", "t", "i", "g", "a", "t", "i", "o", "n",
          "_", "r", "e", "p", "o", "r", "t", "s", "/", "r", "5">>,
      Code6 |->
          <<"A", "O", "-", "2", "0", "2", "4", "-", "0", "0", "6">>,
      Title6 |->
          <<"F", "u", "e", "l", " ", "s", "t", "a", "r", "v", "a", "t", "i", "o", "n", " ", "i",
          "n", "v", "o", "l", "v", "i", "n", "g", " ", "P", "i", "p", "e", "r", " ", "P", "A",
          "-", "2", "8", ",", " ", "n", "e", "a", "r", " ", "B", "a", "n", "k", "s", "t", "o",
          "w", "n", ",", " ", "o", "n", " ", "7">>,
      Date6 |->
          <<"0", "4", "/", "0", "5", "/", "2", "0", "2", "4">>,
      Href6 |->
          <<" ", "h", "t", "t", "p", "s", ":", "/", "/", "w", "w", "w", ".", "a", "t", "s", "b",
          ".", "g", "o", "v", ".", "a", "u", "/", "p", "u", "b", "l", "i", "c", "a", "t", "i",
          "o", "n", "s", "/", "i", "n", "v", "e", "s", "t", "i", "g", "a", "t", "i", "o", "n",
          "_", "r", "e", "p", "o", "r", "t", "s", "/", "r", "6">>,
      Code7 |->
          <<"A", "O", "-", "2", "0", "2", "4", "-", "0", "0", "7">>,
      Title7 |->
          <<"B", "i", "r", "d", " ", "s", "t", "r", "i", "k", "e">>,
      Date7 |->
          <<"0", "5", "/", "0", "5", "/", "2", "0", "2", "4">>,
      Href7 |->
          <<"h", "t", "t", "p", ":", "/", "/", "/", "p", "u", "b", "l", "i", "c", "a", "t", "i",
          "o", "n", "s", "/", "i", "n", "v", "e", "s", "t", "i", "g", "a", "t", "i", "o", "n",
          "_", "r", "e", "p", "o", "r", "t", "s", "/", "r", "7">>,
      HomeText |->
          <<"H", "o", "m", "e">>,
      HomeHref |->
          <<"/">>,
      Open |->
          <<"O", "p", "e", "n">>,
      Closed |->
          <<"C", "l", "o", "s", "e", "d">>,
      ShortCode1 |->
          <<"A", "O", "-", "1">>,
      ShortCode2 |->
          <<"A", "O", "-", "2">>,
      ShortCode3 |->
          <<" ", "a", "o", "-", "3", "\n">>,
      ShortTitleA |->
          <<"T", " ", "a">>,
      ShortTitleB |->
          <<"T", " ", "b">>,
      ShortHrefA |->
          <<"/", "p", "u", "b", "l", "i", "c", "a", "t", "i", "o", "n", "s", "/", "i", "n", "v",
          "e", "s", "t", "i", "g", "a", "t", "i", "o", "n", "_", "r", "e", "p", "o", "r", "t",
          "s", "/", "a">>,
      ShortHrefB |->
          <<"/", "p", "u", "b", "l", "i", "c", "a", "t", "i", "o", "n", "s", "/", "i", "n", "v",
          "e", "s", "t", "i", "g", "a", "t", "i", "o", "n", "_", "r", "e", "p", "o", "r", "t",
          "s", "/", "b">>,
      DateMay2 |->
          <<"0", "2", "/", "0", "5", "/", "2", "0", "2", "4">>,
      DateMay1 |->
          <<"1", "/", "5", "/", "2", "0", "2", "4">>,
      DateTBA |->
          <<"T", "B", "A">>,
      DateMin |->
          <<"0", "1", "/", "0", "1", "/", "0", "0", "0", "1">>,
      DateFeb31 |->
          <<"3", "1", "/", "0", "2", "/", "2", "0", "2", "4">> ]

\* ---- the texts of the detail pages the model draws from ----
DetailText ==
    [ ParaEngine |->
          <<"T", "h", "e", " ", "p", "i", "l", "o", "t", " ", "r", "e", "p", "o", "r", "t", "e",
          "d", " ", "a", "n", " ", "e", "n", "g", "i", "n", "e", " ", "f", "a", "i", "l", "u",
          "r", "e", " ", "s", "h", "o", "r", "t", "l", "y", " ", "a", "f", "t", "e", "r", " ",
          "t", "a", "k", "e", "-", "o", "f", "f", ";", " ", "t", "h", "e", "r", "e", " ", "w",
          "e", "r", "e", " ", "n", "o", " ", "i", "n", "j", "u", "r", "i", "e", "s", ".">>,
      ParaCaption |->
          <<"F", "i", "g", "u", "r", "e", " ", "1", ":", " ", "t", "h", "e", " ", "a", "i", "r",
          "c", "r", "a", "f", "t">>,
      ParaDitching |->
          <<"T", "h", "e", " ", "h", "e", "l", "i", "c", "o", "p", "t", "e", "r", " ", "w", "a",
          "s", " ", " ", " ", "d", "i", "t", "c", "h", "e", "d", " ", "i", "n", "\n", " ", "s",
          "h", "a", "l", "l", "o", "w", " ", "w", "a", "t", "e", "r", " ", "a", "n", "d", " ",
          "t", "h", "e", " ", "p", "i", "l", "o", "t", " ", "s", "u", "s", "t", "a", "i", "n",
          "e", "d", " ", "a", " ", "s", "e", "r", "i", "o", "u", "s", " ", "i", "n", "j", "u",
          "r", "y", ".">>,
      ParaFuel |->
          <<"F", "u", "e", "l", " ", "e", "x", "h", "a", "u", "s", "t", "i", "o", "n", " ", "l",
          "e", "d", " ", "t", "o", " ", "a", " ", "f", "o", "r", "c", "e", "d", " ", "l", "a",
          "n", "d", "i", "n", "g", " ", "o", "n", " ", "t", "h", "e", " ", "r", "u", "n", "w",
          "a", "y", ".">>,
      ParaWeather |->
          <<"T", "h", "e", " ", "w", "e", "a", "t", "h", "e", "r", " ", "d", "e", "t", "e", "r",
          "i", "o", "r", "a", "t", "e", "d", " ", "b", "e", "l", "o", "w", " ", "t", "h", "e",
          " ", "V", "F", "R", " ", "m", "i", "n", "i", "m", "a", " ", "e", "n", " ", "r", "o",
          "u", "t", "e", ".">>,
      ParaFatal |->
          <<"T", "h", "e", " ", "p", "a", "s", "s", "e", "n", "g", "e", "r", " ", "w", "a", "s",
          " ", "f", "a", "t", "a", "l", "l", "y", " ", "i", "n", "j", "u", "r", "e", "d", " ",
          "i", "n", " ", "t", "h", "e", " ", "c", "o", "l", "l", "i", "s", "i", "o", "n", " ",
          "w", "i", "t", "h", " ", "t", "e", "r", "r", "a", "i", "n", ".">>,
      ParaForty |->
          <<"x", "x", "x", "x", "x", "x", "x", "x", "x", "x", "x", "x", "x", "x", "x", "x", "x",
          "x", "x", "x", "x", "x", "x", "x", "x", "x", "x", "x", "x", "x", "x", "x", "x", "x",
          "x", "x", "x", "x", "x", "x">>,
      TitleDitching |->
          <<"D", "i", "t", "c", "h", "i", "n", "g", " ", "i", "n", "v", "o", "l", "v", "i", "n",
          "g", " ", "R", "o", "b", "i", "n", "s", "o", "n", " ", "R", "4", "4", " ", "h", "e",
          "l", "i", "c", "o", "p", "t", "e", "r", ",", " ", "o", "f", "f", " ", "B", "r", "o",
          "o", "m", "e", ",", " ", "o", "n", " ", "3", " ", "J", "u", "n", "e", " ", "|", " ",
          "A", "T", "S", "B">>,
      HeadingFatal |->
          <<" ", " ", "A", "c", "c", "i", "d", "e", "n", "t", " ", " ", "i", "n", "v", "o", "l",
          "v", "i", "n", "g", "\t", "a", "n", " ", "a", "c", "c", "r", "e", "d", "i", "t", "e",
          "d", " ", "r", "e", "p", "r", "e", "s", "e", "n", "t", "a", "t", "i", "v", "e", " ",
          "\n">> ]

\* ---- the fragments the classifier inputs are made of ----
Frag ==
    [ No |->
          <<"n", "o", " ">>,
      Injury |->
          <<"i", "n", "j", "u", "r", "y">>,
      Injuries |->
          <<"i", "n", "j", "u", "r", "i", "e", "s">>,
      Serious |->
          <<"s", "e", "r", "i", "o", "u", "s", " ">>,
      Fatal |->
          <<"F", "a", "t", "a", "l">>,
      Engine |->
          <<"E", "n", "g", "i", "n", "e">>,
      Runway |->
          <<"r", "u", "n", "w", "a", "y">>,
      Ditching |->
          <<"d", "i", "t", "c", "h", "i", "n", "g">>,
      Cfit |->
          <<"C", "F", "I", "T">> ]

\* ---- inputs: listing rows ----
\* The text of an element is one text node: get_text(" ", strip=True) strips it.
Anchor(text, href) == [text |-> text, href |-> href]
\* the two rows of the end-to-end scenario: code link, title link, date, status
Row1 ==
    LET t == ListingText
    IN  [anchors |-> <<Anchor(t.Code1, t.Href1), Anchor(t.Title1, t.Href1)>>,
         tds |-> <<t.Code1, t.Title1, t.Date1, t.Closed>>]
Row2 ==
    LET t == ListingText
    IN  [anchors |-> <<Anchor(t.Code2, t.Href2), Anchor(t.Title2, t.Href2)>>,
         tds |-> <<t.Code2, t.Title2, t.Date2, t.Open>>]
\* title link before code link, a date that does not parse, no status cell
Row3 ==
    LET t == ListingText
    IN  [anchors |-> <<Anchor(t.Title3, t.Href3), Anchor(t.Code3, t.Href3)>>,
         tds |-> <<t.Title3, t.Code3, t.Date3>>]
\* a date before 1677-09-22
Row4 ==
    LET t == ListingText
    IN  [anchors |-> <<Anchor(t.Title4, t.Href4), Anchor(t.Code4, t.Href4)>>,
         tds |-> <<t.Title4, t.Code4, t.Date4, t.Closed>>]
\* an href that is neither absolute nor rooted
Row5 ==
    LET t == ListingText
    IN  [anchors |-> <<Anchor(t.Title5, t.Href5), Anchor(t.Code5, t.Href5)>>,
         tds |-> <<t.Title5, t.Code5, t.Date5, t.Open>>]
\* an absolute href after a blank: requests.get strips it
Row6 ==
    LET t == ListingText
    IN  [anchors |-> <<Anchor(t.Title6, t.Href6), Anchor(t.Code6, t.Href6)>>,
         tds |-> <<t.Title6, t.Code6, t.Date6, t.Open>>]
\* an href with a scheme and no host
Row7 ==
    LET t == ListingText
    IN  [anchors |-> <<Anchor(t.Title7, t.Href7), Anchor(t.Code7, t.Href7)>>,
         tds |-> <<t.Title7, t.Code7, t.Date7, t.Closed>>]
\* a row without a report link
RowHome ==
    LET t == ListingText
    IN  [anchors |-> <<Anchor(t.HomeText, t.HomeHref)>>, tds |-> <<t.HomeText>>]

\* the listing pages main() is run on
MainPages ==
    { <<>>, <<RowHome>>, <<Row1, Row2>>, <<Row2, RowHome, Row1>>, <<Row3>>, <<Row3, Row1>>,
      <<Row4>>, <<Row2, Row4>>, <<Row5>>, <<Row1, Row1>>, <<Row6>>, <<Row1, Row7>> }

\* short rows for parse_listing: the site's layout, title link then code link
ShortRow(title, href, code, date, status) ==
    [anchors |-> <<Anchor(title, href), Anchor(code, href)>>,
     tds |-> <<title, code, date, status>>]
ListingRows ==
    LET t == ListingText
    IN  { ShortRow(t.ShortTitleA, t.ShortHrefA, t.ShortCode1, t.DateMay2, t.Open),
          ShortRow(t.ShortTitleB, t.ShortHrefB, t.ShortCode1, t.DateTBA, t.Closed),
          ShortRow(t.ShortTitleA, t.ShortHrefA, t.ShortCode2, t.DateMay1, t.Open),
          ShortRow(t.ShortTitleB, t.ShortHrefB, t.ShortCode2, t.DateMay2, t.Closed),
          ShortRow(t.ShortTitleA, t.ShortHrefA, t.ShortCode3, t.DateMin, t.Open),
          ShortRow(t.ShortTitleB, t.ShortHrefB, t.ShortCode3, t.DateFeb31, t.Closed),
          RowHome }

MaxRows == 3
MaxLimit == 3
\* main() calls parse_listing(limit=10)
DefaultLimit == 10

RECURSIVE SeqsUpTo(_, _)
SeqsUpTo(S, n) ==
    IF n = 0 THEN {<<>>}
    ELSE SeqsUpTo(S, n - 1) \cup {Append(s, x) : s \in {t \in SeqsUpTo(S, n - 1) : Len(t) = n - 1}, x \in S}
ListingPages == SeqsUpTo(ListingRows, MaxRows)
Limits == (-1)..MaxLimit

\* ---- inputs: detail pages ----
\* the heading repeats the listing title; paragraphs inside <main>, a caption among them
RepeatPage(item) ==
    LET t == DetailText
    IN  [h1 |-> <<item.title>>, title |-> <<item.title \o SiteSuffix>>,
         main |-> << <<t.ParaCaption, t.ParaEngine, t.ParaForty>> >>,
         doc |-> <<t.ParaCaption, t.ParaEngine, t.ParaForty, t.ParaFatal>>]
\* no <h1>, no <main>, five paragraphs of more than 40 characters
TitleOnlyPage ==
    LET t == DetailText
    IN  [h1 |-> <<>>, title |-> <<t.TitleDitching>>, main |-> <<>>,
         doc |-> <<t.ParaDitching, t.ParaCaption, t.ParaFuel, t.ParaWeather, t.ParaEngine,
                   t.ParaFatal>>]
\* an <h1>, a <main> without paragraphs
HeadingOnlyPage ==
    [h1 |-> <<DetailText.HeadingFatal>>, title |-> <<>>, main |-> << <<>> >>,
     doc |-> <<DetailText.ParaFatal>>]
\* neither <h1> nor <title>
BarePage ==
    [h1 |-> <<>>, title |-> <<>>, main |-> <<>>, doc |-> <<>>]
DetailPages(item) == {RepeatPage(item), TitleOnlyPage, HeadingOnlyPage, BarePage}

\* ---- the run of main() ----
LIST_URL == BASE \o ListPath
CsvPath == "data/reports.csv"
\* mutant: the JSON is written to the path of the CSV
JsonPathOfCsv == "data/reports.csv"
JsonPath == "data/reports.json"
InsightsPath == "outputs/insights.md"
DashboardPath == "outputs/dashboard.html"
OutputFiles == {CsvPath, JsonPath, InsightsPath, DashboardPath}
OutputDirs == {"data", "outputs"}

Get(url) == [op |-> "GET", target |-> url]
Write(path) == [op |-> "write", target |-> path]

\* the least and the greatest midnight a datetime64[ns] holds: 1677-09-22 and 2262-04-11
NsFirstDay == 16770922
NsLastDay == 22620411
OutOfNsBounds(d) == d # NoDate /\ (d < NsFirstDay \/ d > NsLastDay)

Abort(e) == pc' = "aborted" /\ err' = e

\* Path.mkdir(exist_ok=True): the directory is created, or it exists and nothing happens,
\* or OSError is raised and the run ends: os.mkdir fails and is_dir() does not find the
\* directory (a read-only or removed working directory, a file of that name), or cannot
\* look for it (a working directory that may not be searched), whether it exists or not
MakeDir(step, d, next) ==
    /\ pc = step
    /\ \/ /\ dirs' = dirs \cup {d}
          /\ pc' = next
          /\ err' = err
       \/ /\ Abort("OSError")
          /\ dirs' = dirs
    /\ UNCHANGED <<page, limit, listing, summaries, served, detailed, log, files>>
    /\ UNCHANGED textVars
\* DATA_DIR.mkdir(exist_ok=True)
MakeDataDir == MakeDir("start", "data", "outdir")
\* OUT_DIR.mkdir(exist_ok=True)
MakeOutDir == MakeDir("outdir", "outputs", "listing")

\* listing = parse_listing(limit): one GET of LIST_URL, then the parse
ParseListing ==
    /\ pc = "listing"
    /\ log' = Append(log, Get(LIST_URL))
    /\ \E refused \in {RequestError(LIST_URL)} :
          \/ /\ Abort(IF refused = "none" THEN "HTTPError" ELSE refused)
             /\ UNCHANGED <<listing, summaries>>
          \/ /\ refused = "none"
             /\ listing' = parse_listing(page, limit)
             /\ summaries' = listing'
             /\ pc' = IF listing' = <<>> THEN "prepare" ELSE "details"
             /\ err' = err
    /\ UNCHANGED <<page, limit, served, detailed, dirs, files>>
    /\ UNCHANGED textVars

\* one iteration of [fetch_report_detail(item) for item in listing]: requests.get refuses
\* the URL, or the fetch fails (connection, time-out, raise_for_status), or a page comes
FetchDetail ==
    /\ pc = "details"
    /\ LET i == Len(detailed) + 1
           item == listing[i]
       IN  /\ log' = Append(log, Get(item.report_url))
           /\ \E refused \in {RequestError(item.report_url)} :
                 \/ /\ refused # "none"
                    /\ Abort(refused)
                    /\ UNCHANGED <<listing, served, detailed>>
                 \/ /\ refused = "none"
                    /\ Abort("HTTPError")
                    /\ UNCHANGED <<listing, served, detailed>>
                 \/ /\ refused = "none"
                    /\ \E soup \in DetailPages(item) :
                          /\ served' = Append(served, soup)
                          /\ IF HeadingMissing(soup)
                             THEN /\ Abort("AttributeError")
                                  /\ UNCHANGED <<listing, detailed>>
                             ELSE /\ listing' = [listing EXCEPT ![i] = fetch_report_detail(item, soup)]
                                  /\ detailed' = Append(detailed, listing'[i])
                                  /\ pc' = IF i = Len(listing) THEN "prepare" ELSE "details"
                                  /\ err' = err
    /\ UNCHANGED <<page, limit, summaries, dirs, files>>
    /\ UNCHANGED textVars

\* mutant: df.to_csv(...) is called before the occurrence_date column is converted
PrepareAfterCsv ==
    /\ pc = "prepare"
    /\ files' = [files EXCEPT ![CsvPath] = "written"]
    /\ \/ /\ detailed = <<>>
          /\ Abort("KeyError")
       \/ /\ detailed # <<>>
          /\ \E i \in DOMAIN detailed : OutOfNsBounds(detailed[i].occurrence_date)
          /\ Abort("OutOfBoundsDatetime")
       \/ /\ detailed # <<>>
          /\ pc' = "json"
          /\ err' = err
    /\ UNCHANGED <<page, limit, listing, summaries, served, detailed, log, dirs>>
    /\ UNCHANGED textVars

\* df = pd.DataFrame(detailed); df["occurrence_date"] = pd.to_datetime(...); json_ready = ...
\* An empty frame has no occurrence_date column.  A date outside the datetime64[ns]
\* range makes to_datetime raise or not, depending on the pandas release.
Prepare ==
    /\ pc = "prepare"
    /\ \/ /\ detailed = <<>>
          /\ Abort("KeyError")
       \/ /\ detailed # <<>>
          /\ \E i \in DOMAIN detailed : OutOfNsBounds(detailed[i].occurrence_date)
          /\ Abort("OutOfBoundsDatetime")
       \/ /\ detailed # <<>>
          /\ pc' = "csv"
          /\ err' = err
    /\ UNCHANGED <<page, limit, listing, summaries, served, detailed, log, dirs, files>>
    /\ UNCHANGED textVars

\* one export step: the file is written, or the write raises OSError and leaves the
\* file as it was or partly written
Export(step, path, next) ==
    /\ pc = step
    /\ log' = Append(log, Write(path))
    /\ \/ /\ files' = [files EXCEPT ![path] = "written"]
          /\ pc' = next
          /\ err' = err
       \/ /\ \E left \in {files[path], "partial"} : files' = [files EXCEPT ![path] = left]
          /\ Abort("OSError")
    /\ UNCHANGED <<page, limit, listing, summaries, served, detailed, dirs>>
    /\ UNCHANGED textVars

\* df.to_csv(DATA_DIR / "reports.csv", index=False)
WriteCsv == Export("csv", CsvPath, "json")
\* (DATA_DIR / "reports.json").write_text(json.dumps(...))
WriteJson == Export("json", JsonPath, "insights")
\* write_insights(df, OUT_DIR / "insights.md")
WriteInsights == Export("insights", InsightsPath, "dashboard")
\* build_dashboard(df, OUT_DIR / "dashboard.html")
BuildDashboard == Export("dashboard", DashboardPath, "done")

\* the file system main() starts in: empty, or as an earlier run left it
InitialFileSystems ==
    { [d |-> {}, f |-> [p \in OutputFiles |-> "absent"]],
      [d |-> {"data"},
       f |-> [p \in OutputFiles |-> IF p \in {CsvPath, JsonPath} THEN "stale" ELSE "absent"]],
      [d |-> OutputDirs, f |-> [p \in OutputFiles |-> "stale"]] }

TextIdle ==
    /\ frags = <<>>
    /\ cause = NoValue
    /\ severity = NoValue
    /\ seenSeverity = {}

MainInitWith(pages, limits) ==
    /\ pc = "start"
    /\ err = "none"
    /\ page \in pages
    /\ limit \in limits
    /\ listing = <<>>
    /\ summaries = <<>>
    /\ served = <<>>
    /\ detailed = <<>>
    /\ log = <<>>
    /\ \E fs \in InitialFileSystems : dirs = fs.d /\ files = fs.f

Init ==
    /\ MainInitWith(MainPages, {DefaultLimit})
    /\ TextIdle

Next ==
    \/ MakeDataDir
    \/ MakeOutDir
    \/ ParseListing
    \/ FetchDetail
    \/ Prepare
    \/ WriteCsv
    \/ WriteJson
    \/ WriteInsights
    \/ BuildDashboard

Spec == Init /\ [][Next]_vars

\* ---- calls of parse_listing(limit) on their own ----
InitListing ==
    /\ pc = "listing"
    /\ err = "none"
    /\ page \in ListingPages
    /\ limit \in Limits
    /\ listing = <<>>
    /\ summaries = <<>>
    /\ served = <<>>
    /\ detailed = <<>>
    /\ log = <<>>
    /\ dirs = OutputDirs
    /\ files = [p \in OutputFiles |-> "absent"]
    /\ TextIdle

SpecListing == InitListing /\ [][ParseListing]_vars

\* ---- calls of the classifiers on texts built from fragments ----
Fragments ==
    {Frag.No, Frag.Injury, Frag.Injuries, Frag.Serious, Frag.Fatal, Frag.Engine, Frag.Runway,
     Frag.Ditching, Frag.Cfit}
MaxFrags == 3

\* the text under classification
Text == Flatten(frags)

InitText ==
    /\ pc = "classify"
    /\ err = "none"
    /\ page = <<>>
    /\ limit = DefaultLimit
    /\ listing = <<>>
    /\ summaries = <<>>
    /\ served = <<>>
    /\ detailed = <<>>
    /\ log = <<>>
    /\ dirs = {}
    /\ files = [p \in OutputFiles |-> "absent"]
    /\ TextIdle

\* the input grows by one fragment
Extend ==
    /\ cause = NoValue
    /\ Len(frags) < MaxFrags
    /\ \E f \in Fragments : frags' = Append(frags, f)
    /\ UNCHANGED <<cause, severity, seenSeverity>>
    /\ UNCHANGED mainVars

\* classify_cause(text) and classify_severity(text), as fetch_report_detail calls them
Classify ==
    /\ cause = NoValue
    /\ cause' = classify_cause(Text)
    /\ severity' = classify_severity(Text)
    /\ seenSeverity' = seenSeverity \cup {severity'}
    /\ UNCHANGED frags
    /\ UNCHANGED mainVars

\* the next input starts empty
NewText ==
    /\ cause # NoValue
    /\ frags' = <<>>
    /\ cause' = NoValue
    /\ severity' = NoValue
    /\ UNCHANGED seenSeverity
    /\ UNCHANGED mainVars

NextText == Extend \/ Classify \/ NewText

SpecText == InitText /\ [][NextText]_vars

\* ---- properties ----
Sydney ==
    <<"S", "y", "d", "n", "e", "y">>
Perth ==
    <<"P", "e", "r", "t", "h">>

\* parse_listing has returned (under SpecListing the run stops there)
ListingReturned == pc \in {"details", "prepare"}
\* the report identifiers of a list of items
Identifiers(items) == {items[i].report_no : i \in DOMAIN items}
Min2(a, b) == IF a < b THEN a ELSE b

\* C3, as stated: whenever the listing yields M > N raw candidate records for a
\* limit N >= 0, parse_listing(N) returns exactly N records.
C3_ExactlyLimit ==
    (ListingReturned /\ limit >= 0 /\ Len(RawItems(page)) > limit)
        => Len(summaries) = limit

\* C3, amended: for a limit N >= 0, parse_listing(N) returns min(N, D) records, D being
\* the number of distinct report identifiers among the raw candidates; so M > N raw
\* candidates give exactly N records only when D >= N.
C3_LimitOrDistinct ==
    (ListingReturned /\ limit >= 0)
        => Len(summaries) = Min2(limit, Cardinality(Identifiers(RawItems(page))))
\* more raw candidates than the limit, fewer distinct identifiers than candidates, a true truncation
C3_Witness ==
    /\ ListingReturned
    /\ limit >= 1
    /\ Len(RawItems(page)) > Cardinality(Identifiers(RawItems(page)))
    /\ Cardinality(Identifiers(RawItems(page))) > limit
    /\ Len(summaries) = limit

\* the rows of the page that carry the report identifier id
RowsOf(id) ==
    {r \in DOMAIN page : ReportLinks(page[r]) # <<>> /\ RowItem(page[r]).report_no = id}

\* C4: no two records returned by parse_listing share a report identifier, and each
\* record returned equals, field for field, the last listing row with its identifier.
C4_LastWriteWins ==
    ListingReturned =>
        /\ \A i, j \in DOMAIN summaries :
              i # j => summaries[i].report_no # summaries[j].report_no
        /\ \A i \in DOMAIN summaries :
              /\ RowsOf(summaries[i].report_no) # {}
              /\ summaries[i] = RowItem(page[Greatest(RowsOf(summaries[i].report_no))])
\* an identifier carried by two rows that differ, its record returned
C4_Witness ==
    /\ ListingReturned
    /\ \E i \in DOMAIN summaries :
          \E r \in RowsOf(summaries[i].report_no) : RowItem(page[r]) # summaries[i]

\* the deduplicated records that the truncation dropped
Dropped ==
    {it \in {Dedup(RawItems(page))[k] : k \in DOMAIN Dedup(RawItems(page))} :
        it.report_no \notin Identifiers(summaries)}
KeepsMostRecent ==
    \A d \in Dropped : \A k \in DOMAIN summaries :
        ~(d.occurrence_date # NoDate
          /\ d.occurrence_date > (IF summaries[k].occurrence_date = NoDate
                                  THEN DatetimeMin ELSE summaries[k].occurrence_date))

\* C5, as stated: the records are in non-increasing order of occurrence date, an
\* undated record counting as dated datetime.min; every dated record precedes every
\* undated one; no dropped record is dated later than a kept one.
C5_DatedBeforeUndated ==
    ListingReturned =>
        /\ \A i, j \in DOMAIN summaries :
              i < j =>
                 (IF summaries[i].occurrence_date = NoDate
                  THEN DatetimeMin ELSE summaries[i].occurrence_date)
                 >= (IF summaries[j].occurrence_date = NoDate
                     THEN DatetimeMin ELSE summaries[j].occurrence_date)
        /\ \A i, j \in DOMAIN summaries :
              (summaries[i].occurrence_date # NoDate /\ summaries[j].occurrence_date = NoDate)
                 => i < j
        /\ KeepsMostRecent

\* C5, amended: the same, except that only the records dated later than datetime.min
\* (0001-01-01) precede every undated record; a record dated 0001-01-01 need not.
C5_LaterThanMinBeforeUndated ==
    ListingReturned =>
        /\ \A i, j \in DOMAIN summaries :
              i < j =>
                 (IF summaries[i].occurrence_date = NoDate
                  THEN DatetimeMin ELSE summaries[i].occurrence_date)
                 >= (IF summaries[j].occurrence_date = NoDate
                     THEN DatetimeMin ELSE summaries[j].occurrence_date)
        /\ \A i, j \in DOMAIN summaries :
              (summaries[i].occurrence_date > DatetimeMin /\ summaries[j].occurrence_date = NoDate)
                 => i < j
        /\ KeepsMostRecent
\* a dated and an undated record returned, out of listing order, and a record dropped
C5_Witness ==
    /\ ListingReturned
    /\ Dropped # {}
    /\ \E i, j \in DOMAIN summaries :
          /\ summaries[i].occurrence_date > DatetimeMin
          /\ summaries[j].occurrence_date = NoDate
          /\ Greatest(RowsOf(summaries[j].report_no)) < Greatest(RowsOf(summaries[i].report_no))

\* the categories in the order of the claim, and the keywords of a category
CategoryOrder ==
    <<"Collision with terrain", "Near collision / airprox", "Ditching / water impact",
      "Mechanical / system issue", "Operational event">>
KeywordsOf(label) ==
    LET e == CHOOSE i \in DOMAIN mapping : mapping[i].label = label
    IN  {mapping[e].kws[j] : j \in DOMAIN mapping[e].kws}
\* the places in CategoryOrder of the categories with a keyword in the lower-cased text t
CategoriesHit(t) ==
    {c \in DOMAIN CategoryOrder : \E k \in KeywordsOf(CategoryOrder[c]) : Contains(t, k)}

\* C6: classify_cause returns the earliest category, in the fixed order, one of whose
\* keywords occurs in the lower-cased text, and "Other / undetermined" exactly when
\* none occurs; "runway" with "engine" and no earlier category gives "Mechanical / system issue".
C6_FirstMatchWins ==
    cause # NoValue =>
        LET t == Lower(Text)
            hit == CategoriesHit(t)
        IN  /\ hit = {} <=> cause = "Other / undetermined"
            /\ hit # {} => cause = CategoryOrder[Least(hit)]
            /\ (Contains(t, CauseKw.runway) /\ Contains(t, CauseKw.engine) /\ \A c \in hit : c >= 4)
                  => cause = "Mechanical / system issue"
\* a text with "runway" before "engine", classified
C6_Witness ==
    /\ cause = "Mechanical / system issue"
    /\ Len(frags) >= 2
    /\ frags[1] = Frag.Runway
    /\ Contains(Lower(Text), CauseKw.engine)

\* C10: classify_severity never returns "No injury": a text containing "no injury" or
\* "no injuries" is labelled "Injury", or "Fatal" / "Serious injury" when an earlier
\* rule matches, and the labels returned are exactly Fatal, Serious injury, Injury, Unknown.
C10_NoInjuryUnreachable ==
    /\ severity # "No injury"
    /\ seenSeverity \subseteq {"Fatal", "Serious injury", "Injury", "Unknown"}
    /\ (severity # NoValue
        /\ (Contains(Lower(Text), SeverityKw.no_injury) \/ Contains(Lower(Text), SeverityKw.no_injuries)))
          => /\ severity \in {"Fatal", "Serious injury", "Injury"}
             /\ severity = "Injury" <=>
                   (~Contains(Lower(Text), SeverityKw.fatal) /\ ~Contains(Lower(Text), SeverityKw.serious_injury))
\* all four labels have been returned, the last for a text that says "no injur..."
C10_Witness ==
    /\ seenSeverity = {"Fatal", "Serious injury", "Injury", "Unknown"}
    /\ severity = "Injury"
    /\ Contains(Lower(Text), SeverityKw.no_injuries)

\* a file the run has not touched
Unmodified(p) == files[p] \in {"absent", "stale"}
WriteAttempted(p) == \E k \in DOMAIN log : log[k].op = "write" /\ log[k].target = p
NoWriteAttempted == \A k \in DOMAIN log : log[k].op # "write"

\* C1, as stated: in a run that aborts, at whatever step, none of the four output
\* files has been created or modified.
C1_AbortLeavesNoFile ==
    pc = "aborted" => \A p \in OutputFiles : Unmodified(p)

\* C1, amended: in a run that aborts before the first export step (creation of the
\* directories, listing fetch, a detail fetch, data-frame preparation) no output file has
\* been created or modified: a run aborted while creating the directories has fetched
\* nothing, a run aborted later has both directories; an abort in an
\* export step leaves the files of the earlier export steps written and those of the
\* later steps untouched.
C1_AbortBeforeExportLeavesNoFile ==
    /\ (pc = "aborted" /\ NoWriteAttempted) => \A p \in OutputFiles : Unmodified(p)
    /\ (pc = "aborted" /\ log = <<>>) => err = "OSError"
    /\ (pc = "aborted" /\ log # <<>>) => dirs = OutputDirs
    /\ (pc = "aborted" /\ err # "OSError") => NoWriteAttempted
    /\ \A p \in OutputFiles : ~WriteAttempted(p) => Unmodified(p)
    /\ (pc = "aborted" /\ WriteAttempted(JsonPath)) => files[CsvPath] = "written"
\* a run aborted by the second detail fetch, over the files of an earlier run
C1_Witness ==
    /\ pc = "aborted"
    /\ err = "HTTPError"
    /\ Len(detailed) = 1
    /\ \A p \in OutputFiles : files[p] = "stale"

\* what requests.get and raise_for_status raise: a failed fetch, a URL that is refused
FetchErrors == {"HTTPError", "MissingSchema", "InvalidSchema", "InvalidURL", "ValueError"}
\* C2, as stated: a run aborts only on a failure of the network layer (failures of the
\* file system set aside): when every fetch succeeds, main() runs to completion.
C2_OnlyNetworkAborts ==
    (pc = "aborted" /\ err # "OSError") => err \in FetchErrors

IsPrefix(a, b) == Len(a) <= Len(b) /\ SubSeq(b, 1, Len(a)) = a
\* the requests and writes of a complete run, in order
ExpectedLog ==
    <<Get(LIST_URL)>>
    \o [i \in DOMAIN summaries |-> Get(summaries[i].report_url)]
    \o <<Write(CsvPath), Write(JsonPath), Write(InsightsPath), Write(DashboardPath)>>

\* C7: the listing is fetched once and first, the detail pages one at a time, once per
\* record and in the order of the sorted listing, and every write follows the last
\* detail fetch, the four writes going to four distinct paths.
C7_EventOrder ==
    /\ IsPrefix(log, ExpectedLog)
    /\ pc = "done" => log = ExpectedLog
    /\ \A k \in DOMAIN log : log[k].op = "write" => Len(detailed) = Len(summaries)
    /\ \A j, k \in DOMAIN log :
          (j < k /\ log[j].op = "write" /\ log[k].op = "write") => log[j].target # log[k].target
\* a complete run over a listing of two records
C7_Witness ==
    /\ pc = "done"
    /\ Len(summaries) = 2
    /\ Len(log) = 7

\* the run of the scenario: the two-row listing, limit 10, headings that repeat the listing titles
Scenario ==
    /\ page = <<Row1, Row2>>
    /\ limit = DefaultLimit
    /\ pc = "done"
    /\ \A i \in DOMAIN served : served[i] = RepeatPage(summaries[i])

\* C8, as stated: the scenario yields exactly 2 records, the record whose identifier is
\* "AO-2024-002" first; the AO-2024-001 record is "Air transport" at "Sydney", the
\* AO-2024-002 record "Helicopter" at "Perth".
C8_ScenarioByCode ==
    Scenario =>
        /\ Len(detailed) = 2
        /\ detailed[1].report_no = ListingText.Code2
        /\ \E i \in DOMAIN detailed :
              /\ detailed[i].report_no = ListingText.Code1
              /\ detailed[i].operation_type = "Air transport"
              /\ detailed[i].location = Sydney
        /\ \E i \in DOMAIN detailed :
              /\ detailed[i].report_no = ListingText.Code2
              /\ detailed[i].operation_type = "Helicopter"
              /\ detailed[i].location = Perth

\* C8, amended: the scenario yields exactly 2 records, the record of the AO-2024-002
\* row (dated 02/05/2024) first; the code link being the last report link of a row,
\* which in these rows is the title link, the identifier of each record is its title
\* text and not its report code; the record of the AO-2024-001 row is "Air transport"
\* at "Sydney", that of the AO-2024-002 row "Helicopter" at "Perth".
C8_ScenarioByTitle ==
    Scenario =>
        /\ Len(detailed) = 2
        /\ detailed[1].report_no = ListingText.Title2
        /\ detailed[1].occurrence_date_text = ListingText.Date2
        /\ detailed[1].operation_type = "Helicopter"
        /\ detailed[1].location = Perth
        /\ detailed[2].report_no = ListingText.Title1
        /\ detailed[2].occurrence_date_text = ListingText.Date1
        /\ detailed[2].operation_type = "Air transport"
        /\ detailed[2].location = Sydney
\* the scenario has run to completion
C8_Witness ==
    /\ Scenario
    /\ Len(served) = 2
    /\ \A p \in OutputFiles : files[p] = "written"

KeptFields ==
    {"report_no", "report_url", "occurrence_date", "occurrence_date_text", "investigation_status"}
AddedFields ==
    {"aircraft", "location", "operation_type", "key_text", "cause_category", "severity"}
Merged == pc \in {"prepare", "csv", "json", "insights", "dashboard", "done"}

\* C9: once the merge is over there is one record per record of the listing, in the
\* same order; a merged record keeps the five listing fields, takes its title from the
\* detail page and gains the six derived fields; a record not yet merged is as the
\* listing returned it, and a merged record does not change afterwards.
C9_MergePreservesListing ==
    /\ Merged => Len(detailed) = Len(summaries)
    /\ Len(detailed) <= Len(summaries)
    /\ Len(listing) = Len(summaries)
    /\ \A i \in DOMAIN detailed :
          /\ \A f \in KeptFields : detailed[i][f] = summaries[i][f]
          /\ DOMAIN detailed[i] = KeptFields \cup {"title"} \cup AddedFields
          /\ detailed[i].title = DetailTitle(served[i])
          /\ listing[i] = detailed[i]
    /\ \A i \in DOMAIN listing : i > Len(detailed) => listing[i] = summaries[i]
\* a complete run of two records, a title replaced by the heading of the detail page
C9_Witness ==
    /\ pc = "done"
    /\ Len(detailed) = 2
    /\ \E i \in DOMAIN detailed : detailed[i].title # summaries[i].title
====
